---- MODULE Spec2Model ----
(***************************************************************************)
(* A model of the Nova-Voice realtime speech gateway: the per-client       *)
(* speech session engine (process_audio_chunk), the job dispatcher         *)
(* (publish_job_if_needed / publish_audio_job), the result router          *)
(* (forward_result_to_client), the session store (load/save/delete on      *)
(* three Redis keys), the gateway's in-process session cache, the STT and  *)
(* translation workers, and the dual voice-activity detector.              *)
(*                                                                         *)
(* Concurrency.  The gateway is one asyncio event loop: code between two   *)
(* awaits is atomic, and every awaited Redis command is a suspension       *)
(* point.  One action of the model is one resumption of a task: the        *)
(* synchronous code that runs after an await returns, up to and including  *)
(* the execution of the next Redis command at the server.  Consecutive     *)
(* commands are taken in one action where no other task can observe the    *)
(* difference: only the ingest task writes the buffer keys, so its own     *)
(* load is one step, while the save (HSET, then the buffer keys) and the   *)
(* result task's load (HGETALL, then the GETs) keep their suspension       *)
(* points.                                                                 *)
(* Per client there are the ingest task (handle_client: audio chunks and   *)
(* control messages, strictly one after the other), the result task        *)
(* (listen_to_client -> forward_result_to_client) and the catch-up task    *)
(* that forward_result_to_client creates for publish_job_if_needed.        *)
(*                                                                         *)
(* Data.  An audio chunk is one unit of audio, written as the number of    *)
(* the chunk (1 for the first chunk the client sent, 2 for the second...), *)
(* so a buffer is a sequence of chunk numbers and its length is counted    *)
(* in chunks.  Byte and second constants of config.py are given in these   *)
(* units.  Time is an integer clock; time.time() reads it.                 *)
(***************************************************************************)
EXTENDS Integers, Sequences, FiniteSets, TLC

(* ---------------- bounds of the model ---------------- *)
MaxChunks == 3
MaxTime == 1
MaxOther == 1
MaxControl == 1
MaxVadChunks == 3
MaxJobs == 2
MaxMessages == 2

(* ---------------- program constants (in model units) ---------------- *)
\* int(PRE_SPEECH_BUFFER_SECONDS * SAMPLE_RATE * 2), in chunks
PRE_SPEECH_MAX_BYTES == 2
\* MINIMUM_NEW_AUDIO_SECONDS, in chunks
MINIMUM_NEW_AUDIO_SECONDS == 2
\* int(MAX_AUDIO_BUFFER_SECONDS * SAMPLE_RATE * 2), in chunks
MAX_AUDIO_BUFFER_BYTES == 3
\* SILENCE_THRESHOLD_SECONDS, in clock ticks
SILENCE_THRESHOLD_SECONDS == 1
\* MAX_QUEUE_DEPTH, in stream entries
MAX_QUEUE_DEPTH == 1
\* GatewayService.session_cache_ttl, in clock ticks
session_cache_ttl == 1
SEND_FINAL_JOB_ON_MAX_BUFFER == TRUE

\* the one client id of the model (handle_client draws a fresh id per connection)
c1 == "c1"
\* the (source_language, target_language) pairs a set_langs message may carry
LangPairs == {<< "en", "vi" >>, << "en", "en" >>}
\* Python's None for the optional timestamp
None == -1

VARIABLES
  now,                    \* the wall clock read by time.time()
  phase,                  \* "new" | "connected" | "closing" | "closed": the client's connection
  connected_clients,      \* GatewayService.connected_clients (its key set)
  job_in_flight,          \* RedisService.job_in_flight: client -> BOOLEAN
  latest_segment_id_sent, \* RedisService.latest_segment_id_sent: client -> Int
  client_pubsubs,         \* RedisService.client_pubsubs (its key set)
  session_cache,          \* GatewayService.session_cache: client -> [sess, time]
  store,                  \* Redis: session:<c> hash and the two buffer keys
  stream,                 \* Redis stream AUDIO_JOBS: the client's entries, in order
  transcriptions,         \* Redis stream TRANSCRIPTIONS
  channel,                \* messages on results:<c> not yet taken by the listener
  frames,                 \* frames sent on the client's websocket, in order
  ingest,                 \* the ingest task: position and locals
  router,                 \* the result task: position and locals
  catchup,                \* the catch-up publish task: position and locals
  chunkCount,             \* chunks received from the client so far
  jobCount,               \* jobs appended for the client so far (job ids)
  so_marks,               \* history: each completed start_over, with the audio it cleared
  setLangsCount,          \* set_langs messages handled so far
  owner,                  \* history: the job that set job_in_flight, and whether a worker answered it
  endedUtts,              \* history: utterances ended by silence timeout or overflow
  lastCall,               \* history: what the last process_audio_chunk call did
  vad,                    \* VoiceActivityDetector: flags, Silero thread, caller position
  hist,                   \* history: the VAD verdict of the last chunk, and where its silence began
  environ                 \* os.environ as config.py reads it: the variables that are set

gatewayVars == << now, phase, connected_clients, job_in_flight, latest_segment_id_sent,
                  client_pubsubs, session_cache, store, stream, transcriptions, channel,
                  frames, ingest, router, catchup, chunkCount, jobCount, so_marks,
                  setLangsCount, owner, endedUtts, lastCall >>

vars == << gatewayVars, vad, hist, environ >>

(* ======================= config.py: the environment ======================= *)

\* os.getenv(name, default)
Getenv(name, default) == IF name \in DOMAIN environ THEN environ[name] ELSE default

\* lines 42-43: the languages a new session starts with
DEFAULT_SOURCE_LANGUAGE == Getenv("DEFAULT_SOURCE_LANGUAGE", "en")
DEFAULT_TARGET_LANGUAGE == Getenv("DEFAULT_TARGET_LANGUAGE", "vi")

\* an environment that sets none of the variables config.py reads
NoEnviron == [x \in {} |-> ""]

\* the environments of a deployment: none of the variables set, or the target language
\* set to the source language for a gateway that only transcribes
Environments == {NoEnviron, [x \in {"DEFAULT_TARGET_LANGUAGE"} |-> "en"]}

(* ======================= session.py ======================= *)

\* SpeechSession(): the dataclass defaults and __post_init__
InitialSession ==
  [ state |-> "inactive",
    audio_buffer |-> << >>,
    pre_speech_buffer |-> << >>,
    silence_start_time |-> None,
    session_start_time |-> None,
    accumulated_audio_bytes |-> 0,
    last_stt_send_time |-> None,
    last_published_len |-> 0,
    silence_buffer_start_len |-> 0,
    source_lang |-> DEFAULT_SOURCE_LANGUAGE,
    target_lang |-> DEFAULT_TARGET_LANGUAGE,
    translation_enabled |-> TRUE ]

\* SpeechSession.start_speech
start_speech(s) ==
  [s EXCEPT !.state = "active",
            !.session_start_time = now,
            !.silence_start_time = None,
            !.silence_buffer_start_len = 0,
            !.last_published_len = 0]

\* end_speech_session without the clearing of the pre-speech buffer
end_speech_session_keeping_pre_speech(s) ==
  [s EXCEPT !.state = "inactive",
            !.audio_buffer = << >>,
            !.silence_start_time = None,
            !.session_start_time = None,
            !.accumulated_audio_bytes = 0,
            !.last_stt_send_time = None,
            !.last_published_len = 0,
            !.silence_buffer_start_len = 0]

\* SpeechSession.end_speech_session
end_speech_session(s) ==
  [s EXCEPT !.state = "inactive",
            !.audio_buffer = << >>,
            !.pre_speech_buffer = << >>,
            !.silence_start_time = None,
            !.session_start_time = None,
            !.accumulated_audio_bytes = 0,
            !.last_stt_send_time = None,
            !.last_published_len = 0,
            !.silence_buffer_start_len = 0]

\* str(bool) as to_dict writes it
StrBool(b) == IF b THEN "True" ELSE "False"
\* str.lower() on the strings that occur
Lower(x) == IF x = "True" THEN "true" ELSE IF x = "False" THEN "false" ELSE x

\* SpeechSession.to_dict: the scalar fields as stored strings; None becomes "",
\* written << >>, and a number n becomes str(n), written << n >>
to_dict(s) ==
  [ state |-> s.state,
    silence_start_time |->
      IF s.silence_start_time = None THEN << >> ELSE << s.silence_start_time >>,
    session_start_time |->
      IF s.session_start_time = None THEN << >> ELSE << s.session_start_time >>,
    accumulated_audio_bytes |-> << s.accumulated_audio_bytes >>,
    last_stt_send_time |->
      IF s.last_stt_send_time = None THEN << >> ELSE << s.last_stt_send_time >>,
    last_published_len |-> << s.last_published_len >>,
    silence_buffer_start_len |-> << s.silence_buffer_start_len >>,
    source_lang |-> s.source_lang,
    target_lang |-> s.target_lang,
    translation_enabled |-> StrBool(s.translation_enabled) ]

\* a parse that reads the empty string as 0
ParseNumOrZero(x, fallback) == IF Len(x) = 1 THEN x[1] ELSE 0

\* int(x) / float(x) on a stored string, with the fallback for a string that is no number
ParseNum(x, fallback) == IF Len(x) = 1 THEN x[1] ELSE fallback

\* SpeechSession.from_dict: a field that is not in the hash keeps the dataclass default
from_dict(h, audio, pre) ==
  LET has(f) == f \in DOMAIN h IN
  [ state |-> IF has("state") THEN h.state ELSE InitialSession.state,
    audio_buffer |-> audio,
    pre_speech_buffer |-> pre,
    silence_start_time |->
      IF has("silence_start_time") THEN ParseNum(h.silence_start_time, None) ELSE None,
    session_start_time |->
      IF has("session_start_time") THEN ParseNum(h.session_start_time, None) ELSE None,
    accumulated_audio_bytes |->
      IF has("accumulated_audio_bytes") THEN ParseNum(h.accumulated_audio_bytes, 0) ELSE 0,
    last_stt_send_time |->
      IF has("last_stt_send_time") THEN ParseNum(h.last_stt_send_time, None) ELSE None,
    last_published_len |->
      IF has("last_published_len") THEN ParseNum(h.last_published_len, 0) ELSE 0,
    silence_buffer_start_len |->
      IF has("silence_buffer_start_len") THEN ParseNum(h.silence_buffer_start_len, 0) ELSE 0,
    source_lang |-> IF has("source_lang") THEN h.source_lang ELSE DEFAULT_SOURCE_LANGUAGE,
    target_lang |-> IF has("target_lang") THEN h.target_lang ELSE DEFAULT_TARGET_LANGUAGE,
    translation_enabled |->
      IF has("translation_enabled") THEN Lower(h.translation_enabled) = "true" ELSE TRUE ]

(* ======================= gateway.py: the dispatcher ======================= *)

Max(a, b) == IF a >= b THEN a ELSE b
Range(q) == {q[i] : i \in 1..Len(q)}

\* publish_job_if_needed, lines 184-194: the bytes counted as new speech
NewSpeechBytes(s) ==
  IF s.silence_buffer_start_len > 0 /\ s.silence_buffer_start_len > s.last_published_len
  THEN Max(0, Len(s.audio_buffer) - s.silence_buffer_start_len)
  ELSE Len(s.audio_buffer) - s.last_published_len

\* a minimum that the new speech has to exceed
MeetsMinimumStrictly(s) == NewSpeechBytes(s) > MINIMUM_NEW_AUDIO_SECONDS

\* publish_job_if_needed, line 196: new_audio_meets_minimum
MeetsMinimum(s) == NewSpeechBytes(s) >= MINIMUM_NEW_AUDIO_SECONDS

\* publish_job_if_needed, line 198: the condition under which publish_audio_job is called
ShouldPublish(s, jif, force) ==
  /\ (force \/ ~jif)
  /\ Len(s.audio_buffer) > s.last_published_len
  /\ (force \/ MeetsMinimum(s))

\* publish_job_if_needed, lines 203-205: run after publish_audio_job returns, whatever it returns
MarkPublished(s) ==
  [s EXCEPT !.last_published_len = Len(s.audio_buffer), !.silence_buffer_start_len = 0]

\* a publish_job_if_needed that moves the marker whether publish_audio_job returned or raised
PublishOutcomeAlwaysMarked(s, raised) == MarkPublished(s)

\* publish_job_if_needed, lines 201-205: the session once publish_audio_job has returned,
\* or has raised (the exception leaves the function at line 201)
PublishOutcome(s, raised) == IF raised THEN s ELSE MarkPublished(s)

\* publish_audio_job, line 135: the backpressure test on the depth xlen returned
QueueFull(depth) == depth > MAX_QUEUE_DEPTH

\* job_in_flight.get(client_id, False)
JobInFlight == IF c1 \in DOMAIN job_in_flight THEN job_in_flight[c1] ELSE FALSE

\* job_in_flight[client_id] = v
SetJobInFlight(v) == [x \in DOMAIN job_in_flight \cup {c1} |-> IF x = c1 THEN v ELSE job_in_flight[x]]

\* redis.xlen(AUDIO_JOBS_STREAM)
\* XLEN of AUDIO_JOBS: the client's entries and those of the other clients
XLen(other) == Len(stream) + other

\* publish_audio_job, lines 141-158: the job envelope (ep: start_overs completed so far, history;
\* pel: the entry has been delivered to a worker and is in the pending entries list of
\* the consumer group)
JobEnvelope(s, is_final) ==
  [ id |-> jobCount + 1,
    segment_id |-> now,
    audio |-> s.audio_buffer,
    source_lang |-> s.source_lang,
    target_lang |-> s.target_lang,
    translation_enabled |-> s.translation_enabled,
    is_final |-> is_final,
    utt |-> Head(s.audio_buffer),
    ep |-> Len(so_marks),
    pel |-> FALSE ]

(* ======================= gateway.py: process_audio_chunk ======================= *)

\* a trim that keeps the oldest bytes of the pre-speech buffer
TrimPreSpeechOldest(buf) ==
  IF Len(buf) > PRE_SPEECH_MAX_BYTES THEN SubSeq(buf, 1, PRE_SPEECH_MAX_BYTES) ELSE buf

\* lines 235-240: the rolling pre-speech buffer after the chunk is appended
TrimPreSpeech(buf) ==
  IF Len(buf) > PRE_SPEECH_MAX_BYTES
  THEN SubSeq(buf, Len(buf) - PRE_SPEECH_MAX_BYTES + 1, Len(buf))
  ELSE buf

\* a max-buffer test that lets the buffer grow one chunk further than
\* BufferExceeded does
BufferExceededLate(len) == len > MAX_AUDIO_BUFFER_BYTES + 1

\* line 291: the max-buffer test
BufferExceeded(len) == len > MAX_AUDIO_BUFFER_BYTES

\* a timeout test that needs more than the threshold
SilenceTimedOutLate(duration) == duration > SILENCE_THRESHOLD_SECONDS

\* line 314: the silence-timeout test
SilenceTimedOut(duration) == duration >= SILENCE_THRESHOLD_SECONDS

\* lines 330-332: in_silence_period
InSilencePeriod(s) ==
  /\ s.silence_start_time # None
  /\ s.silence_buffer_start_len > 0
  /\ Len(s.audio_buffer) > s.silence_buffer_start_len

\* a has_speech branch that leaves the silence timer as start_speech set it
OnSpeechTimerUnset(s) ==
  CASE s.state = "inactive" ->
         start_speech([s EXCEPT !.audio_buffer = s.audio_buffer \o s.pre_speech_buffer,
                                !.accumulated_audio_bytes = @ + Len(s.pre_speech_buffer)])
    [] s.state = "silence" ->
         start_speech([s EXCEPT !.silence_buffer_start_len = Len(s.audio_buffer)])
    [] OTHER -> s

\* lines 253-272: the has_speech branch
OnSpeech(s) ==
  CASE s.state = "inactive" ->
         [start_speech([s EXCEPT !.audio_buffer = s.audio_buffer \o s.pre_speech_buffer,
                                 !.accumulated_audio_bytes = @ + Len(s.pre_speech_buffer)])
            EXCEPT !.silence_start_time = now]
    [] s.state = "silence" ->
         [start_speech([s EXCEPT !.silence_buffer_start_len = Len(s.audio_buffer)])
            EXCEPT !.silence_start_time = now]
    [] OTHER -> [s EXCEPT !.silence_start_time = now]

\* lines 275-280: entering a silence period
OnSilence(s) ==
  IF s.state = "active" /\ s.silence_start_time = None
  THEN [s EXCEPT !.silence_start_time = now, !.silence_buffer_start_len = Len(s.audio_buffer)]
  ELSE s

\* lines 234-291: the session after the chunk is buffered, before any publish
Buffered(s, chunk, has_speech) ==
  LET s1 == [s EXCEPT !.pre_speech_buffer = TrimPreSpeech(s.pre_speech_buffer \o << chunk >>)]
      s2 == IF has_speech THEN OnSpeech(s1) ELSE OnSilence(s1)
  IN IF s2.state = "active"
     THEN [s2 EXCEPT !.audio_buffer = s2.audio_buffer \o << chunk >>,
                     !.accumulated_audio_bytes = @ + 1]
     ELSE s2

\* lines 291, 306-314, 328-338: which branch the call takes once the chunk is buffered
Branch(s) ==
  IF s.state = "active" /\ BufferExceeded(Len(s.audio_buffer)) THEN "overflow"
  ELSE IF s.state = "active" /\ s.silence_start_time # None
          /\ SilenceTimedOut(now - s.silence_start_time) THEN "timeout"
  ELSE IF s.state = "active" /\ ~InSilencePeriod(s) THEN "normal"
  ELSE "skip"

(* ======================= redis_service.py: the session keys ======================= *)

EmptyMap == [x \in {} |-> 0]
NoHash == [f \in {} |-> 0]

\* redis HSET key mapping: the given fields are written, the others stay
HSet(h, m) == [f \in DOMAIN h \cup DOMAIN m |-> IF f \in DOMAIN m THEN m[f] ELSE h[f]]

\* the three keys of a client with no session; snap: the session of the save_session
\* whose HSET last wrote the hash (history)
EmptyStore ==
  [ hash |-> NoHash, audio_buffer |-> << >>, pre_speech_buffer |-> << >>,
    snap |-> InitialSession ]

\* save_session, line 94: hset of the scalar fields
SaveHash(s) == [store EXCEPT !.hash = HSet(store.hash, to_dict(s)), !.snap = s]

\* save_session, lines 101-104: set, or delete when empty, the audio buffer key
SaveAudio(s) == [store EXCEPT !.audio_buffer = s.audio_buffer]

\* save_session, lines 106-109: set, or delete when empty, the pre-speech buffer key
SavePre(s) == [store EXCEPT !.pre_speech_buffer = s.pre_speech_buffer]

\* delete_session, line 122: one DEL of the three keys
DeleteKeys == EmptyStore

\* what a load has read so far
NoLoad == [hash |-> NoHash, audio |-> << >>, pre |-> << >>, snap |-> InitialSession]

\* load_session, line 53: hgetall; the buffers are read only when the hash is not empty
LoadHash == [NoLoad EXCEPT !.hash = store.hash, !.snap = store.snap]

\* load_session, line 70: get of the audio buffer key
LoadAudio(ld) == [ld EXCEPT !.audio = store.audio_buffer]

\* load_session, line 74: get of the pre-speech buffer key
LoadPre(ld) == [ld EXCEPT !.pre = store.pre_speech_buffer]

\* load_session, lines 53-74, as the ingest task runs it: the three reads taken together,
\* the buffer keys being written by the ingest task only
LoadAll == LoadPre(LoadAudio(LoadHash))

\* load_session, lines 64-80: the session built from what was read
Loaded(ld) ==
  IF DOMAIN ld.hash = {} THEN InitialSession ELSE from_dict(ld.hash, ld.audio, ld.pre)

(* ======================= task records ======================= *)

NoOwner == [id |-> 0, set |-> FALSE, answered |-> FALSE]
NoCall == [chunk |-> 0, buflen |-> 0, branch |-> "skip", forced |-> 0, appended |-> 0,
           dropped |-> FALSE, done |-> FALSE, endState |-> "inactive"]
NoHist == [hs |-> FALSE, dip |-> 0]
IdleIngest == [pc |-> "idle", op |-> "none", sess |-> InitialSession, ld |-> NoLoad,
               t0 |-> 0, branch |-> "skip", depth |-> 0, job |-> 0, args |-> << >>]
NoMsg == [kind |-> "none", job |-> 0, segment_id |-> 0, is_final |-> FALSE, status |-> "ok",
          text |-> FALSE, translation |-> FALSE, translation_enabled |-> FALSE,
          utt |-> 0, ep |-> 0]
IdleRouter == [pc |-> "idle", msg |-> NoMsg, sess |-> InitialSession, ld |-> NoLoad]
NoCatchup == [pc |-> "none", sess |-> InitialSession, depth |-> 0, job |-> 0]
IdleVad == [is_webrtc_speech_active |-> FALSE, is_silero_speech_active |-> FALSE,
            silero_working |-> FALSE, thread |-> "none", threadSilero |-> FALSE,
            pc |-> "idle",
            webrtc |-> FALSE, silero |-> FALSE, count |-> 0,
            returned |-> FALSE, verdict |-> FALSE,
            client |-> "none", threadClient |-> "none", sileroClient |-> "none",
            usedClient |-> "none"]

\* a frame on the websocket
Frame(type, m) ==
  [ type |-> type, job |-> m.job, segment_id |-> m.segment_id, text |-> m.text,
    translation |-> m.translation, utt |-> m.utt, late |-> m.ep < Len(so_marks),
    source_language |-> "", target_language |-> "", translation_enabled |-> FALSE ]

\* _send_status_update / _send_initial_status: the status frame
StatusFrame(src, tgt, te) ==
  [ type |-> "status", job |-> 0, segment_id |-> 0, text |-> FALSE, translation |-> FALSE,
    utt |-> 0, late |-> FALSE,
    source_language |-> src, target_language |-> tgt, translation_enabled |-> te ]

\* the gateway after construction, whatever the environment
Started ==
  /\ now = 0
  /\ phase = "new"
  /\ connected_clients = {}
  /\ job_in_flight = EmptyMap
  /\ latest_segment_id_sent = EmptyMap
  /\ client_pubsubs = {}
  /\ session_cache = EmptyMap
  /\ store = EmptyStore
  /\ stream = << >>
  /\ transcriptions = << >>
  /\ channel = << >>
  /\ frames = << >>
  /\ ingest = IdleIngest
  /\ router = IdleRouter
  /\ catchup = NoCatchup
  /\ chunkCount = 0
  /\ jobCount = 0
  /\ so_marks = << >>
  /\ setLangsCount = 0
  /\ owner = NoOwner
  /\ endedUtts = {}
  /\ lastCall = NoCall
  /\ vad = IdleVad
  /\ hist = NoHist

\* the gateway started in an environment that sets none of the variables
Init == environ = NoEnviron /\ Started

\* the gateway started in any of the environments
InitEnviron == environ \in Environments /\ Started

(* ======================= the ingest task ======================= *)

CacheEntry(s, t) == [x \in {c1} |-> [sess |-> s, time |-> t]]

\* load_session, lines 131-135: a cached session younger than the ttl is returned
CacheHit ==
  /\ c1 \in DOMAIN session_cache
  /\ now - session_cache[c1].time < session_cache_ttl

\* handle_client, lines 58-76 and _send_initial_status: registration, subscription, first frame
Connect ==
  /\ phase = "new"
  /\ phase' = "connected"
  /\ connected_clients' = connected_clients \cup {c1}
  /\ job_in_flight' = SetJobInFlight(FALSE)
  /\ latest_segment_id_sent' = [x \in {c1} |-> -1]
  /\ client_pubsubs' = client_pubsubs \cup {c1}
  /\ frames' = Append(frames, StatusFrame(DEFAULT_SOURCE_LANGUAGE, DEFAULT_TARGET_LANGUAGE, TRUE))
  /\ UNCHANGED << now, session_cache, store, stream, transcriptions, channel,
                  ingest, router, catchup, chunkCount, jobCount, so_marks,
                  setLangsCount, owner, endedUtts, lastCall, vad, hist, environ >>

\* publish_audio_job, lines 134-172, as the server sees it: XLEN, and unless the depth is
\* over MAX_QUEUE_DEPTH the XADD of the job; the caller resumes later
Appended(s, is_final, depth) ==
  IF QueueFull(depth) THEN stream ELSE Append(stream, JobEnvelope(s, is_final))

\* process_audio_chunk, lines 235-338, on session s0 with the chunk and the VAD verdict:
\* buffering, the branch taken, and the commands of what follows (those of
\* publish_audio_job, or the HSET of the closing save_session)
\* raises: the XADD of publish_audio_job raises
RunChunkXadd(s0, chunk, ctime, hs, other, raises) ==
  LET b == Buffered(s0, chunk, hs)
      br == Branch(b)
      force == br \in {"overflow", "timeout"}
      jif == IF br = "timeout" THEN FALSE ELSE JobInFlight
      wants == CASE br = "overflow" -> SEND_FINAL_JOB_ON_MAX_BUFFER /\ ShouldPublish(b, jif, TRUE)
                 [] br = "timeout" -> ShouldPublish(b, jif, TRUE)
                 [] br = "normal" -> ShouldPublish(b, jif, FALSE)
                 [] OTHER -> FALSE
      full == QueueFull(XLen(other))
      s1 == IF force /\ ~wants THEN end_speech_session(b) ELSE b
      base == [IdleIngest EXCEPT !.op = "chunk", !.sess = s1, !.branch = br,
                                 !.t0 = ingest.t0, !.ld = ingest.ld]
  IN /\ wants => jobCount < MaxJobs
     /\ raises => (wants /\ ~full)
     /\ job_in_flight' = IF br = "timeout" THEN SetJobInFlight(FALSE) ELSE job_in_flight
     /\ owner' = IF br = "timeout" THEN NoOwner ELSE owner
     /\ endedUtts' = IF force /\ ~wants THEN endedUtts \cup {Head(b.audio_buffer)} ELSE endedUtts
     /\ session_cache' = CacheEntry(s1, ctime)
     /\ lastCall' = [ chunk |-> chunk,
                      buflen |-> IF b.state = "active" THEN Len(b.audio_buffer) ELSE 0,
                      branch |-> br, forced |-> IF wants /\ force THEN 1 ELSE 0,
                      appended |-> IF wants /\ force /\ ~full /\ ~raises THEN 1 ELSE 0,
                      dropped |-> wants /\ full, done |-> FALSE,
                      endState |-> s1.state ]
     /\ IF wants
        THEN /\ ingest' = [base EXCEPT !.pc = IF raises THEN "xadd_raises" ELSE "publish",
                                       !.depth = XLen(other),
                                       !.job = IF full \/ raises THEN 0 ELSE jobCount + 1]
             /\ stream' = IF raises THEN stream ELSE Appended(b, force, XLen(other))
             /\ jobCount' = IF full \/ raises THEN jobCount ELSE jobCount + 1
             /\ UNCHANGED store
        ELSE /\ ingest' = [base EXCEPT !.pc = "sv_hash"]
             /\ store' = SaveHash(s1)
             /\ UNCHANGED << stream, jobCount >>

\* process_audio_chunk when the XADD succeeds
RunChunk(s0, chunk, ctime, hs, other) == RunChunkXadd(s0, chunk, ctime, hs, other, FALSE)

\* _handle_audio_message -> process_audio_chunk, line 232: load_session from the cache,
\* or on a miss the HGETALL of RedisService.load_session
\* hs: the verdict detect_speech_activity returns for the chunk
\* raises: the XADD of the call's publish_audio_job raises
ChunkBeginXadd(hs, raises) ==
  /\ phase = "connected"
  /\ ingest.pc = "idle"
  /\ chunkCount < MaxChunks
  /\ chunkCount' = chunkCount + 1
  /\ IF CacheHit
     THEN /\ \E other \in 0..MaxOther :
               RunChunkXadd(session_cache[c1].sess, chunkCount + 1, session_cache[c1].time,
                            hs, other, raises)
     ELSE /\ ~raises
          /\ session_cache' = EmptyMap
          /\ ingest' = [IdleIngest EXCEPT !.pc = "ld", !.op = "chunk", !.t0 = now,
                                          !.ld = LoadAll]
          /\ UNCHANGED << job_in_flight, owner, endedUtts, lastCall, store, stream,
                          jobCount >>
  /\ UNCHANGED << now, phase, connected_clients, latest_segment_id_sent, client_pubsubs,
                  transcriptions, channel, frames, router, catchup, so_marks,
                  setLangsCount, vad, environ >>

ChunkBeginWith(hs) == ChunkBeginXadd(hs, FALSE)

ChunkBegin == \E hs \in BOOLEAN : ChunkBeginWith(hs) /\ UNCHANGED hist

\* _handle_start_over, line 212: RedisService.load_session, not the cached one
StartOverBegin ==
  /\ phase = "connected"
  /\ ingest.pc = "idle"
  /\ Len(so_marks) + setLangsCount < MaxControl
  /\ ingest' = [IdleIngest EXCEPT !.pc = "ld", !.op = "start_over", !.t0 = now,
                                  !.ld = LoadAll]
  /\ UNCHANGED << now, phase, connected_clients, job_in_flight, latest_segment_id_sent,
                  client_pubsubs, session_cache, store, stream, transcriptions,
                  channel, frames, router, catchup, chunkCount, jobCount, so_marks, setLangsCount, owner, endedUtts, lastCall, vad, hist, environ >>

\* _handle_set_languages, lines 181-186: the new languages and RedisService.load_session
SetLangsBegin ==
  /\ phase = "connected"
  /\ ingest.pc = "idle"
  /\ Len(so_marks) + setLangsCount < MaxControl
  /\ setLangsCount' = setLangsCount + 1
  /\ \E langs \in LangPairs :
       ingest' = [IdleIngest EXCEPT !.pc = "ld", !.op = "set_langs", !.t0 = now,
                                    !.ld = LoadAll, !.args = langs]
  /\ UNCHANGED << now, phase, connected_clients, job_in_flight, latest_segment_id_sent,
                  client_pubsubs, session_cache, store, stream, transcriptions,
                  channel, frames, router, catchup, chunkCount, jobCount, so_marks, owner, endedUtts, lastCall, vad, hist, environ >>

\* the session a finished load hands to its caller, by the handler that asked for it:
\* process_audio_chunk goes on with the chunk; _handle_start_over (lines 213-214) ends the
\* speech session and saves; _handle_set_languages (lines 188-193) saves when a language changed
\* hs: the verdict detect_speech_activity returns when the handler is process_audio_chunk
\* raises: the XADD of the call's publish_audio_job raises
IngestLoadedXadd(hs, raises) ==
  /\ ingest.pc = "ld"
  /\ raises => ingest.op = "chunk"
  /\ LET s == Loaded(ingest.ld)
         changed == ingest.args[1] # s.source_lang \/ ingest.args[2] # s.target_lang
         relang == [s EXCEPT !.source_lang = ingest.args[1], !.target_lang = ingest.args[2],
                             !.translation_enabled = (ingest.args[1] # ingest.args[2])]
     IN CASE ingest.op = "chunk" ->
               \E other \in 0..MaxOther :
                 RunChunkXadd(s, chunkCount, ingest.t0, hs, other, raises)
          [] ingest.op = "start_over" ->
               /\ store' = SaveHash(end_speech_session(s))
               /\ ingest' = [ingest EXCEPT !.pc = "sv_hash", !.sess = end_speech_session(s)]
               /\ UNCHANGED << job_in_flight, owner, endedUtts, session_cache, lastCall,
                               stream, jobCount >>
          [] OTHER ->
               /\ store' = IF changed THEN SaveHash(relang) ELSE store
               /\ ingest' = IF changed THEN [ingest EXCEPT !.pc = "sv_hash", !.sess = relang]
                            ELSE IdleIngest
               /\ UNCHANGED << job_in_flight, owner, endedUtts, session_cache, lastCall,
                               stream, jobCount >>
  /\ UNCHANGED << now, phase, connected_clients, latest_segment_id_sent, client_pubsubs,
                  transcriptions, channel, frames, router, catchup, chunkCount, so_marks,
                  setLangsCount, vad, environ >>

IngestLoadedWith(hs) == IngestLoadedXadd(hs, FALSE)

IngestLoaded == \E hs \in BOOLEAN : IngestLoadedWith(hs) /\ UNCHANGED hist

\* publish_job_if_needed, lines 203-207, when publish_audio_job has returned (its result is
\* not looked at), then the caller: end_speech_session after a final job, and the HSET of
\* the closing save_session
IngestPublished ==
  /\ ingest.pc = "publish"
  /\ LET s == ingest.sess
         final == ingest.branch \in {"overflow", "timeout"}
         s1 == PublishOutcome(s, FALSE)
         s2 == IF final THEN end_speech_session(s1) ELSE s1
     IN /\ job_in_flight' = IF final THEN job_in_flight ELSE SetJobInFlight(TRUE)
        /\ owner' = IF final THEN owner
                    ELSE [id |-> ingest.job, set |-> TRUE, answered |-> FALSE]
        /\ endedUtts' = IF final THEN endedUtts \cup {Head(s.audio_buffer)} ELSE endedUtts
        /\ session_cache' = CacheEntry(s2, session_cache[c1].time)
        /\ store' = SaveHash(s2)
        /\ ingest' = [ingest EXCEPT !.pc = "sv_hash", !.sess = s2]
        /\ lastCall' = [lastCall EXCEPT !.endState = s2.state]
  /\ UNCHANGED << now, phase, connected_clients, latest_segment_id_sent, client_pubsubs,
                  stream, transcriptions, channel, frames, router, catchup,
                  chunkCount, jobCount, so_marks, setLangsCount, vad, hist, environ >>

\* RedisService.save_session, lines 101-114: the two buffer keys and the expiry, and the
\* handler after its save: GatewayService.save_session line 155 caches the session
\* (chunk); _handle_start_over line 219 clears the flag; _handle_set_languages line 198
\* sends the status frame
IngestReturn ==
  /\ ingest.pc = "sv_hash"
  /\ store' = [store EXCEPT !.audio_buffer = SaveAudio(ingest.sess).audio_buffer,
                            !.pre_speech_buffer = SavePre(ingest.sess).pre_speech_buffer]
  /\ ingest' = IdleIngest
  /\ session_cache' = IF ingest.op = "chunk" THEN CacheEntry(ingest.sess, now) ELSE session_cache
  /\ lastCall' = IF ingest.op = "chunk" THEN [lastCall EXCEPT !.done = TRUE] ELSE lastCall
  /\ job_in_flight' = IF ingest.op = "start_over" THEN SetJobInFlight(FALSE) ELSE job_in_flight
  /\ owner' = IF ingest.op = "start_over" THEN NoOwner ELSE owner
  /\ so_marks' = IF ingest.op = "start_over"
                 THEN Append(so_marks, [chunks |-> chunkCount,
                                        cleared |-> Range(ingest.ld.audio)])
                 ELSE so_marks
  /\ frames' = IF ingest.op = "set_langs"
               THEN Append(frames, StatusFrame(ingest.sess.source_lang, ingest.sess.target_lang,
                                               ingest.sess.translation_enabled))
               ELSE frames
  /\ UNCHANGED << now, phase, connected_clients, latest_segment_id_sent, client_pubsubs,
                  stream, transcriptions, channel, router, catchup,
                  chunkCount, jobCount, setLangsCount, endedUtts, vad, hist, environ >>

\* _cleanup_client, lines 396-402: the websocket is forgotten and the session keys deleted
DisconnectBegin ==
  /\ phase = "connected"
  /\ ingest.pc = "idle"
  /\ phase' = "closing"
  /\ connected_clients' = connected_clients \ {c1}
  /\ store' = DeleteKeys
  /\ ingest' = [IdleIngest EXCEPT !.pc = "cl_delete", !.op = "cleanup"]
  /\ UNCHANGED << now, job_in_flight, latest_segment_id_sent, client_pubsubs, session_cache,
                  stream, transcriptions, channel, frames, router, catchup,
                  chunkCount, jobCount, so_marks, setLangsCount, owner, endedUtts,
                  lastCall, vad, hist, environ >>

\* _cleanup_client, line 405 -> unsubscribe_from_client_channel: the listener task is
\* cancelled and the subscription dropped; a catch-up task already created is cancelled
\* with it only if the listener was waiting in gather
DisconnectEnd ==
  /\ ingest.pc = "cl_delete"
  /\ phase' = "closed"
  /\ ingest' = IdleIngest
  /\ client_pubsubs' = client_pubsubs \ {c1}
  /\ router' = IdleRouter
  /\ channel' = << >>
  /\ \E keep \in BOOLEAN : catchup' = IF keep THEN catchup ELSE NoCatchup
  /\ UNCHANGED << now, connected_clients, job_in_flight, latest_segment_id_sent,
                  session_cache, store, stream, transcriptions, frames,
                  chunkCount, jobCount, so_marks, setLangsCount, owner, endedUtts,
                  lastCall, vad, hist, environ >>

(* ======================= the result task ======================= *)

LastSent == IF c1 \in DOMAIN latest_segment_id_sent THEN latest_segment_id_sent[c1] ELSE -1

\* forward_result_to_client, line 277: the result carries a translation that is not blank
IsTranslationResult(m) == m.translation

\* line 283: should_unlock_job
ShouldUnlockJob(te, m) == ~te \/ IsTranslationResult(m)

\* a forwarding filter that lets every translated result through, whatever its segment
ShouldForwardAnyOrder(te, m, last) == IF te THEN IsTranslationResult(m) ELSE TRUE

\* a forwarding filter that lets every new segment through, translated or not
ShouldForwardUntranslated(te, m, last) == m.segment_id > last

\* lines 290-296: should_forward, with last the latest_segment_id_sent read at line 285
ShouldForward(te, m, last) ==
  IF te THEN m.segment_id > last /\ IsTranslationResult(m) ELSE m.segment_id > last

\* line 343: should_send_utterance_end
ShouldSendUtteranceEnd(te, m) == m.is_final /\ (~te \/ IsTranslationResult(m))

\* an unlock on every new segment, translated or not
UnlocksOnAnyResult(te, m, last) == m.segment_id > last

\* lines 300 and 366: the condition under which job_in_flight is cleared at line 367
Unlocks(te, m, last) == ShouldForward(te, m, last) /\ ShouldUnlockJob(te, m)

\* a marker that takes the segment of whatever result was processed
LatestAfterAny(te, m, last) == m.segment_id

\* lines 300 and 310-311: latest_segment_id_sent after the result is processed
LatestAfter(te, m, last) ==
  IF ShouldForward(te, m, last) /\ m.segment_id > last THEN m.segment_id ELSE last

\* listen_to_client, lines 204-229, and forward_result_to_client, line 275: the next
\* message of results:<c> is taken and RedisService.load_session begins (HGETALL)
RouterTake ==
  /\ c1 \in client_pubsubs
  /\ router.pc = "idle"
  /\ channel # << >>
  /\ channel' = Tail(channel)
  /\ router' = [IdleRouter EXCEPT !.pc = "ld_hash", !.msg = Head(channel), !.ld = LoadHash]
  /\ UNCHANGED << now, phase, connected_clients, job_in_flight, latest_segment_id_sent,
                  client_pubsubs, session_cache, store, stream, transcriptions,
                  frames, ingest, catchup, chunkCount, jobCount, so_marks, setLangsCount,
                  owner, endedUtts, lastCall, vad, hist, environ >>

\* RedisService.load_session, line 70, in the result task: GET of the audio buffer key
RouterLoad ==
  /\ router.pc = "ld_hash"
  /\ DOMAIN router.ld.hash # {}
  /\ router' = [router EXCEPT !.pc = "ld_audio", !.ld = LoadAudio(router.ld)]
  /\ UNCHANGED << now, phase, connected_clients, job_in_flight, latest_segment_id_sent,
                  client_pubsubs, session_cache, store, stream, transcriptions,
                  channel, frames, ingest, catchup, chunkCount, jobCount, so_marks,
                  setLangsCount, owner, endedUtts, lastCall, vad, hist, environ >>

\* RedisService.load_session, line 74 (GET of the pre-speech buffer key, which the result
\* task makes no use of), and forward_result_to_client, lines 276-385: the forwarding
\* filter, the frames, the unlock, and the catch-up (the publish task is created and the
\* last_published_len that was loaded is written back with HSET)
RouterForward ==
  /\ router.pc = IF DOMAIN router.ld.hash = {} THEN "ld_hash" ELSE "ld_audio"
  /\ LET s == Loaded(LoadPre(router.ld))
         m == router.msg
         translation_enabled == s.translation_enabled
         should_forward == ShouldForward(translation_enabled, m, LastSent)
         websocket == c1 \in connected_clients
         should_send_utterance_end == ShouldSendUtteranceEnd(translation_enabled, m)
         unlocks == Unlocks(translation_enabled, m, LastSent)
         catch == unlocks /\ Len(s.audio_buffer) > s.last_published_len
     IN /\ latest_segment_id_sent' =
             [x \in {c1} |-> LatestAfter(translation_enabled, m, LastSent)]
        /\ frames' =
             IF should_forward /\ websocket
             THEN frames \o << Frame("realtime", m) >>
                         \o (IF should_send_utterance_end
                             THEN << Frame("utterance_end", m) >> ELSE << >>)
             ELSE frames
        /\ job_in_flight' =
             IF unlocks THEN SetJobInFlight(FALSE) ELSE job_in_flight
        /\ owner' = IF unlocks THEN NoOwner ELSE owner
        /\ catchup' = IF catch THEN [NoCatchup EXCEPT !.pc = "start", !.sess = s] ELSE catchup
        /\ store' = IF catch
                    THEN [store EXCEPT !.hash =
                            HSet(store.hash, [last_published_len |-> << s.last_published_len >>])]
                    ELSE store
        /\ router' = IF catch THEN [router EXCEPT !.pc = "gather", !.sess = s] ELSE IdleRouter
  /\ UNCHANGED << now, phase, connected_clients, client_pubsubs, session_cache, stream,
                  transcriptions, channel, ingest, chunkCount, jobCount,
                  so_marks, setLangsCount, endedUtts, lastCall, vad, hist, environ >>

\* publish_job_if_needed(client, session, is_final=False) as the catch-up task, lines
\* 179-202: the flag is read, the condition evaluated, and publish_audio_job called
\* raises: the XADD of publish_audio_job raises
CatchupStartXadd(cap, raises) ==
  /\ catchup.pc = "start"
  /\ ShouldPublish(catchup.sess, JobInFlight, FALSE) => jobCount < cap
  /\ IF ShouldPublish(catchup.sess, JobInFlight, FALSE)
     THEN /\ \E other \in 0..MaxOther :
               /\ raises => ~QueueFull(XLen(other))
               /\ catchup' = [catchup EXCEPT !.pc = IF raises THEN "xadd_raises" ELSE "publish",
                                !.depth = XLen(other),
                                !.job = IF QueueFull(XLen(other)) \/ raises
                                        THEN 0 ELSE jobCount + 1]
               /\ stream' = IF raises THEN stream ELSE Appended(catchup.sess, FALSE, XLen(other))
               /\ jobCount' = IF QueueFull(XLen(other)) \/ raises
                              THEN jobCount ELSE jobCount + 1
          /\ UNCHANGED router
     ELSE /\ ~raises
          /\ catchup' = NoCatchup
          /\ router' = IdleRouter
          /\ UNCHANGED << stream, jobCount >>
  /\ UNCHANGED << now, phase, connected_clients, job_in_flight, latest_segment_id_sent,
                  client_pubsubs, session_cache, store, transcriptions,
                  channel, frames, ingest, chunkCount, so_marks, setLangsCount,
                  owner, endedUtts, lastCall, vad, hist, environ >>

CatchupStartUpTo(cap) == CatchupStartXadd(cap, FALSE)

CatchupStart == CatchupStartUpTo(MaxJobs)

\* the catch-up task when publish_audio_job has returned, lines 203-207: the marker is
\* moved on the task's own session object, which nobody saves, and the flag is set
CatchupPublished ==
  /\ catchup.pc = "publish"
  /\ job_in_flight' = SetJobInFlight(TRUE)
  /\ owner' = [id |-> catchup.job, set |-> TRUE, answered |-> FALSE]
  /\ catchup' = NoCatchup
  /\ router' = IdleRouter
  /\ UNCHANGED << now, phase, connected_clients, latest_segment_id_sent, client_pubsubs,
                  session_cache, store, stream, transcriptions, channel, frames,
                  ingest, chunkCount, jobCount, so_marks, setLangsCount, endedUtts,
                  lastCall, vad, hist, environ >>

(* ======================= the workers ======================= *)

Remove(seq, i) == SubSeq(seq, 1, i - 1) \o SubSeq(seq, i + 1, Len(seq))

\* stt_worker/worker.py, lines 128-144: the result of a job; outcome "text" is a
\* transcription with words, "empty" one without, "error" a failed transcription
SttResult(job, outcome) ==
  [ kind |-> "stt", job |-> job.id, segment_id |-> job.segment_id, is_final |-> job.is_final,
    status |-> IF outcome = "error" THEN "error" ELSE "ok",
    text |-> outcome = "text", translation |-> FALSE,
    translation_enabled |-> job.translation_enabled, utt |-> job.utt, ep |-> job.ep ]

\* result_publisher.py, lines 38-57: whether the transcription goes on to translation
NeedsTranslation(r) == r.status = "ok" /\ r.text /\ r.translation_enabled

\* translation_worker/worker.py, lines 142-176: the result of a translation
TranslationResult(t, ok) ==
  [ kind |-> "translation", job |-> t.job, segment_id |-> t.segment_id,
    is_final |-> IF ok THEN t.is_final ELSE FALSE,
    status |-> IF ok THEN "ok" ELSE "error",
    text |-> ok, translation |-> ok,
    translation_enabled |-> t.translation_enabled, utt |-> t.utt, ep |-> t.ep ]

\* redis PUBLISH on results:<c>: delivered only while the gateway is subscribed
Published(m) == IF c1 \in client_pubsubs THEN Append(channel, m) ELSE channel

\* an STT worker takes one entry of AUDIO_JOBS (_process_audio_job, then XACK and XDEL)
STTWorker ==
  \E i \in 1..Len(stream), outcome \in {"text", "empty", "error"} :
    LET r == SttResult(stream[i], outcome) IN
    /\ ~stream[i].pel
    /\ stream' = Remove(stream, i)
    /\ channel' = Published(r)
    /\ transcriptions' = IF NeedsTranslation(r) THEN Append(transcriptions, r)
                         ELSE transcriptions
    /\ owner' = IF owner.set /\ owner.id = r.job THEN [owner EXCEPT !.answered = TRUE] ELSE owner
    /\ UNCHANGED << now, phase, connected_clients, job_in_flight, latest_segment_id_sent,
                    client_pubsubs, session_cache, store, frames, ingest, router,
                    catchup, chunkCount, jobCount, so_marks, setLangsCount, endedUtts,
                    lastCall, vad, hist, environ >>

\* a translation worker takes one entry of TRANSCRIPTIONS (_process_translation_job)
TranslationWorker ==
  \E i \in 1..Len(transcriptions), ok \in BOOLEAN :
    /\ transcriptions' = Remove(transcriptions, i)
    /\ channel' = Published(TranslationResult(transcriptions[i], ok))
    /\ UNCHANGED << now, phase, connected_clients, job_in_flight, latest_segment_id_sent,
                    client_pubsubs, session_cache, store, stream, frames, ingest,
                    router, catchup, chunkCount, jobCount, so_marks, setLangsCount, owner,
                    endedUtts, lastCall, vad, hist, environ >>

\* the clock advances
Tick ==
  /\ now < MaxTime
  /\ now' = now + 1
  /\ UNCHANGED << phase, connected_clients, job_in_flight, latest_segment_id_sent,
                  client_pubsubs, session_cache, store, stream, transcriptions,
                  channel, frames, ingest, router, catchup, chunkCount, jobCount, so_marks,
                  setLangsCount, owner, endedUtts, lastCall, vad, hist, environ >>

Next ==
  \/ Connect
  \/ ChunkBegin
  \/ StartOverBegin
  \/ SetLangsBegin
  \/ IngestLoaded
  \/ IngestPublished
  \/ IngestReturn
  \/ DisconnectBegin
  \/ DisconnectEnd
  \/ RouterTake
  \/ RouterLoad
  \/ RouterForward
  \/ CatchupStart
  \/ CatchupPublished
  \/ STTWorker
  \/ TranslationWorker
  \/ Tick

Spec == Init /\ [][Next]_vars

(* ======================= the chunk engine with its verdicts recorded ======================= *)

\* history: the verdict of the chunk processed on session s0, and the length the audio
\* buffer had when the silence the utterance is in began (0 when it is in none)
Tracked(s0, hs) ==
  [ hs |-> hs,
    dip |-> IF s0.state # "active" \/ hs THEN 0
            ELSE IF ~hist.hs /\ hist.dip > 0 THEN hist.dip
            ELSE Len(s0.audio_buffer) ]

\* ChunkBegin, with the verdict recorded when the chunk is processed in this step
TrackedChunkBegin ==
  \E hs \in BOOLEAN :
    /\ ChunkBeginWith(hs)
    /\ hist' = IF CacheHit THEN Tracked(session_cache[c1].sess, hs) ELSE hist

\* IngestLoaded, with the verdict recorded when the handler is process_audio_chunk
TrackedLoaded ==
  \E hs \in BOOLEAN :
    /\ IngestLoadedWith(hs)
    /\ hist' = IF ingest.op = "chunk" THEN Tracked(Loaded(ingest.ld), hs) ELSE hist

\* one client streaming chunks, nothing coming back from the workers
NextEngine ==
  \/ Connect
  \/ TrackedChunkBegin
  \/ TrackedLoaded
  \/ IngestPublished
  \/ IngestReturn
  \/ Tick

SpecEngine == Init /\ [][NextEngine]_vars

(* ======================= vad.py: the dual detector ======================= *)

\* detect_speech_activity -> _check_voice_activity, lines 116-125, on a chunk whose WebRTC
\* verdict is w and whose Silero verdict is s: WebRTC runs in the caller, Silero is started
\* in a thread unless one is working
\* c: the client whose chunk it is (history, as are threadClient, the client whose chunk
\* the Silero thread works on, sileroClient, the client whose chunk is_silero_speech_active
\* was computed from, and usedClient, the sileroClient of the flag the verdict was read from)
DetectBeginOf(c) ==
  /\ vad.pc = "idle"
  /\ vad.count < MaxVadChunks
  /\ \E w \in BOOLEAN, s \in BOOLEAN :
       vad' = [vad EXCEPT !.is_webrtc_speech_active = w,
                          !.silero_working = IF w THEN TRUE ELSE @,
                          !.thread = IF w /\ ~vad.silero_working THEN "running" ELSE @,
                          !.threadSilero = IF w /\ ~vad.silero_working THEN s ELSE @,
                          !.threadClient = IF w /\ ~vad.silero_working THEN c ELSE @,
                          !.pc = "checked", !.webrtc = w, !.silero = s,
                          !.count = @ + 1, !.returned = FALSE, !.client = c]
  /\ UNCHANGED << gatewayVars, hist, environ >>

DetectBegin == DetectBeginOf(c1)

\* detect_speech_activity, line 136: the two flags as they are at this moment
DetectReturn ==
  /\ vad.pc = "checked"
  /\ vad' = [vad EXCEPT !.pc = "idle", !.returned = TRUE,
                        !.verdict = vad.is_webrtc_speech_active /\ vad.is_silero_speech_active,
                        !.usedClient = vad.sileroClient]
  /\ UNCHANGED << gatewayVars, hist, environ >>

\* _is_silero_speech in its thread, line 112: the verdict is stored
SileroVerdict ==
  /\ vad.thread = "running"
  /\ vad' = [vad EXCEPT !.is_silero_speech_active = vad.threadSilero, !.thread = "stored",
                        !.sileroClient = vad.threadClient]
  /\ UNCHANGED << gatewayVars, hist, environ >>

\* _is_silero_speech in its thread, line 113: the thread is no longer working
SileroDone ==
  /\ vad.thread = "stored"
  /\ vad' = [vad EXCEPT !.silero_working = FALSE, !.thread = "none"]
  /\ UNCHANGED << gatewayVars, hist, environ >>

NextVad ==
  \/ DetectBegin
  \/ DetectReturn
  \/ SileroVerdict
  \/ SileroDone

SpecVad == Init /\ [][NextVad]_vars

(* ======================= properties ======================= *)

\* the results of the client that the result task has still to process
PendingMsgs ==
  channel \o (IF router.pc \in {"ld_hash", "ld_audio"} THEN << router.msg >> ELSE << >>)

\* the jobs of the client that are published and whose terminal result (the STT result
\* without translation, the translation result with it) is still to come or to be processed
AwaitingTerminal ==
  {j.id : j \in Range(stream)}
    \cup {t.job : t \in Range(transcriptions)}
    \cup {m.job : m \in {x \in Range(PendingMsgs) :
                           x.kind = "translation" \/ ~x.translation_enabled}}

\* nothing of the client is left in the pipeline, and the client is still served
Drained ==
  /\ c1 \in client_pubsubs
  /\ stream = << >> /\ transcriptions = << >> /\ channel = << >>
  /\ router.pc = "idle" /\ catchup.pc = "none"

FramesOf(type, u) == {i \in 1..Len(frames) : frames[i].type = type /\ frames[i].utt = u}

\* C1: at any time at most one published job of a client is awaiting its terminal result,
\* whatever the interleaving of chunk processing, result processing, catch-up, forced
\* finals and start_over
C1_OneJobAwaitingResult == Cardinality(AwaitingTerminal) <= 1

\* C2: when publish_audio_job found the queue deeper than MAX_QUEUE_DEPTH and appended
\* nothing, publish_job_if_needed leaves job_in_flight and last_published_len as they were
C2_DroppedJobLeavesNoTrace ==
  [][ ( /\ ingest.pc = "publish" /\ ingest'.pc = "sv_hash"
        /\ ingest.branch = "normal"
        /\ QueueFull(ingest.depth) )
      => ( /\ JobInFlight' = JobInFlight
           /\ ingest'.sess.last_published_len = ingest.sess.last_published_len ) ]_vars

\* the session the next process_audio_chunk call would work on
NextSession == IF CacheHit THEN session_cache[c1].sess ELSE Loaded(LoadAll)

\* C3: once a start_over has completed, no job published afterwards carries audio that was
\* in the audio buffer it cleared, and the next process_audio_chunk call starts from an
\* INACTIVE session with empty buffers
C3_StartOverDiscardsAudio ==
  /\ \A i \in 1..Len(stream) :
       stream[i].ep > 0 => Range(stream[i].audio) \cap so_marks[stream[i].ep].cleared = {}
  /\ ( /\ so_marks # << >> /\ phase = "connected" /\ ingest.pc = "idle"
       /\ chunkCount = so_marks[Len(so_marks)].chunks )
     => ( /\ NextSession.state = "inactive"
          /\ NextSession.audio_buffer = << >>
          /\ NextSession.pre_speech_buffer = << >> )

\* C4: an utterance that was ended by silence timeout or overflow and of which a realtime
\* frame was forwarded gets exactly one utterance_end frame: never two, and one once
\* every job and result of the client has been processed
C4_OneUtteranceEnd ==
  \A u \in endedUtts :
    FramesOf("realtime", u) # {} =>
      /\ Cardinality(FramesOf("utterance_end", u)) <= 1
      /\ (Drained /\ ingest.pc = "idle" /\ phase = "connected")
           => Cardinality(FramesOf("utterance_end", u)) = 1

\* C5: when a worker has published a result for the job that set job_in_flight and the
\* result task has processed everything that was published, the flag is clear
C5_ResultUnlocks ==
  (Drained /\ owner.set /\ owner.answered) => ~JobInFlight

\* C6: the verdict detect_speech_activity returns for a chunk is the conjunction of the
\* WebRTC verdict and the Silero verdict on that same chunk
C6_VerdictIsConjunction ==
  vad.returned => (vad.verdict = (vad.webrtc /\ vad.silero))

\* C7: a load_session never combines the scalars of one save_session with the audio
\* buffer of another
C7_LoadSeesOneSave ==
  router.pc = "ld_audio" => router.ld.audio = router.ld.snap.audio_buffer

\* C8: a result of a job published before a start_over is, once the start_over has
\* completed, neither forwarded as a realtime frame nor followed by an utterance_end
C8_NoLateResults ==
  \A i \in 1..Len(frames) :
    frames[i].type \in {"realtime", "utterance_end"} => ~frames[i].late

\* C9: after _cleanup_client nothing of the client remains: no websocket, no flag, no
\* segment marker, no subscription, no cached session, and none of the three session keys
C9_CleanupLeavesNothing ==
  phase = "closed" =>
    /\ c1 \notin connected_clients
    /\ c1 \notin DOMAIN job_in_flight
    /\ c1 \notin DOMAIN latest_segment_id_sent
    /\ c1 \notin client_pubsubs
    /\ c1 \notin DOMAIN session_cache
    /\ store = EmptyStore

\* C10 as stated: the call whose chunk brings the audio buffer to exactly
\* MAX_AUDIO_BUFFER_BYTES is an overflow: one forced final publish and a reset to INACTIVE
C10_ExactlyMaxOverflows ==
  (lastCall.done /\ lastCall.buflen = MAX_AUDIO_BUFFER_BYTES) =>
    (lastCall.branch = "overflow" /\ lastCall.forced = 1 /\ lastCall.endState = "inactive")

\* C10: the call whose chunk brings the audio buffer over MAX_AUDIO_BUFFER_BYTES makes
\* exactly one forced final publish (one final job appended, or dropped by backpressure)
\* and leaves the session INACTIVE
C10_OverMaxOverflows ==
  (lastCall.done /\ lastCall.buflen > MAX_AUDIO_BUFFER_BYTES) =>
    /\ lastCall.branch = "overflow"
    /\ lastCall.forced = 1
    /\ lastCall.appended = (IF lastCall.dropped THEN 0 ELSE 1)
    /\ lastCall.endState = "inactive"

\* an overflowing call has returned after appending its final job
C10_Witness ==
  lastCall.done /\ lastCall.buflen > MAX_AUDIO_BUFFER_BYTES /\ lastCall.appended = 1


\* the session a process_audio_chunk call works on: the one load_session returned
CallSession == IF ingest.pc = "ld" THEN Loaded(ingest.ld) ELSE session_cache[c1].sess

\* a step in which process_audio_chunk buffers a chunk and goes on to publish or save
ChunkCall ==
  /\ ingest.pc \in {"idle", "ld"}
  /\ ingest'.op = "chunk"
  /\ ingest'.pc \in {"publish", "sv_hash"}

\* C11: when speech resumes after a silence dip within an utterance, silence_buffer_start_len
\* holds the buffer offset at which the silence began, and the bytes publish_job_if_needed
\* counts as new speech are those from that offset to the end of the buffer
C11_SilenceMarkerCounts ==
  [][ ( /\ ChunkCall
        /\ CallSession.state = "active"
        /\ ~hist.hs /\ hist.dip > 0
        /\ hist'.hs
        /\ ingest'.sess.state = "active" )
      => ( /\ ingest'.sess.silence_buffer_start_len = hist.dip
           /\ NewSpeechBytes(ingest'.sess) =
                Len(ingest'.sess.audio_buffer)
                  - Max(hist.dip, ingest'.sess.last_published_len) ) ]_vars


\* q is what is left of p when bytes are dropped from its front
IsSuffix(q, p) ==
  /\ Len(q) <= Len(p)
  /\ SubSeq(p, Len(p) - Len(q) + 1, Len(p)) = q

\* C12: when a chunk with speech processed on an INACTIVE session makes the session ACTIVE,
\* the audio buffer then holds the pre-speech bytes gathered before the chunk followed by
\* the chunk exactly once
C12_ActivationTransfersOnce ==
  [][ ( /\ ChunkCall
        /\ CallSession.state = "inactive"
        /\ CallSession.audio_buffer = << >>
        /\ ingest'.sess.state = "active" )
      => LET a == ingest'.sess.audio_buffer
             k == chunkCount'
         IN /\ a # << >>
            /\ a[Len(a)] = k
            /\ Cardinality({i \in 1..Len(a) : a[i] = k}) = 1
            /\ IsSuffix(SubSeq(a, 1, Len(a) - 1), CallSession.pre_speech_buffer) ]_vars


\* the status frames sent to the client so far
StatusFrames == {i \in 1..Len(frames) : frames[i].type = "status"}

\* C13: every set_langs message of a connected client is answered with a status frame:
\* when the handler has returned there is, besides the status frame sent on connecting,
\* one status frame for each set_langs message handled
C13_SetLangsAnswered ==
  (phase = "connected" /\ ingest.pc = "idle")
    => Cardinality(StatusFrames) = 1 + setLangsCount


\* a step in which forward_result_to_client processes the result it loaded the session for
RouterStep ==
  /\ router.pc \in {"ld_hash", "ld_audio"}
  /\ router'.pc \in {"idle", "gather"}
  /\ c1 \in client_pubsubs'

\* the session forward_result_to_client loaded for the result
RouterSession == Loaded(LoadPre(router.ld))

\* the frames a step sends
NewFrames == SubSeq(frames', Len(frames) + 1, Len(frames'))

\* C14: when the session has translation enabled, processing a result clears job_in_flight
\* only if the result carries a translation, and sends utterance_end only for the
\* translation result of a final segment
C14_TranslationGatesUnlock ==
  [][ (RouterStep /\ RouterSession.translation_enabled)
      => ( /\ (JobInFlight /\ ~JobInFlight') => IsTranslationResult(router.msg)
           /\ \A i \in 1..Len(NewFrames) :
                NewFrames[i].type = "utterance_end"
                  => (IsTranslationResult(router.msg) /\ router.msg.is_final) ) ]_vars

\* a final translation result was forwarded and followed by utterance_end, with the flag clear
C14_Witness ==
  /\ \E i \in 1..Len(frames) : frames[i].type = "utterance_end" /\ frames[i].translation
  /\ ~JobInFlight


\* the realtime frames sent to the client so far
RealtimeFrames == {i \in 1..Len(frames) : frames[i].type = "realtime"}

\* C15: the segment ids of the realtime frames sent to a client increase strictly in the
\* order the frames are sent: a result whose segment is not newer than the last one sent
\* is dropped
C15_SegmentsIncrease ==
  \A i \in RealtimeFrames, j \in RealtimeFrames :
    i < j => frames[i].segment_id < frames[j].segment_id

\* two results of different segments were forwarded
C15_Witness == Cardinality(RealtimeFrames) >= 2

\* C16: when the session has translation enabled at the time a result is processed, every
\* realtime frame sent for it carries a translation
C16_NoUntranslatedFrame ==
  [][ (RouterStep /\ RouterSession.translation_enabled)
      => \A i \in 1..Len(NewFrames) :
           NewFrames[i].type = "realtime" => NewFrames[i].translation ]_vars

\* a translated result was forwarded as a realtime frame
C16_Witness ==
  \E i \in RealtimeFrames : frames[i].translation /\ frames[i].text


\* C19: while a client is registered, latest_segment_id_sent of the client never decreases,
\* whatever results forward_result_to_client processes and in whatever order
C19_LatestNeverDecreases ==
  [][ (c1 \in DOMAIN latest_segment_id_sent) => LastSent' >= LastSent ]_vars

\* the marker has moved past the first segment while an older result was still to come
C19_Witness ==
  /\ LastSent > 0
  /\ \E i \in 1..Len(PendingMsgs) : PendingMsgs[i].segment_id < LastSent


\* the session the store holds: what a load_session that is not interleaved with a save
\* would return
StoredSession == Loaded(LoadAll)

\* the sessions to look at: the one the gateway holds for the client once a call has
\* returned, and the one persisted in the store while no handler of the client is saving
HeldSessions ==
  (IF c1 \in DOMAIN session_cache /\ ingest.pc = "idle"
   THEN {session_cache[c1].sess} ELSE {})
  \cup (IF phase = "connected" /\ ingest.pc = "idle" THEN {StoredSession} ELSE {})

\* C17: last_published_len never exceeds the length of audio_buffer, in the session the
\* gateway holds after a process_audio_chunk call and in the session persisted in the store
C17_PublishedWithinBuffer ==
  \A s \in HeldSessions : s.last_published_len <= Len(s.audio_buffer)

\* C18: a session that is INACTIVE has an empty audio_buffer and last_published_len 0, in
\* the gateway and in the store
C18_InactiveIsEmpty ==
  \A s \in HeldSessions :
    s.state = "inactive" => (s.audio_buffer = << >> /\ s.last_published_len = 0)


\* every copy of the client's pre-speech buffer: cached, in a task's session, in the store
PreSpeechBuffers ==
  {ingest.sess.pre_speech_buffer, router.sess.pre_speech_buffer,
   catchup.sess.pre_speech_buffer, store.pre_speech_buffer}
  \cup (IF c1 \in DOMAIN session_cache
        THEN {session_cache[c1].sess.pre_speech_buffer} ELSE {})

\* C20: the pre-speech buffer never holds more than PRE_SPEECH_MAX_BYTES, and a
\* process_audio_chunk call leaves in it the most recent bytes of what it held followed by
\* the chunk (or nothing, when the call ended the speech session)
C20_PreSpeechRolls ==
  [][ /\ \A q \in PreSpeechBuffers' : Len(q) <= PRE_SPEECH_MAX_BYTES
      /\ ChunkCall =>
           LET p == CallSession.pre_speech_buffer \o << chunkCount' >>
               q == ingest'.sess.pre_speech_buffer
           IN \/ ingest'.sess.state = "inactive" /\ q = << >>
              \/ /\ IsSuffix(q, p)
                 /\ Len(q) = (IF Len(p) > PRE_SPEECH_MAX_BYTES
                              THEN PRE_SPEECH_MAX_BYTES ELSE Len(p)) ]_vars

\* a call has returned with a full pre-speech buffer from which the first chunk was dropped
C20_Witness ==
  /\ ingest.pc = "idle"
  /\ c1 \in DOMAIN session_cache
  /\ LET q == session_cache[c1].sess.pre_speech_buffer
     IN Len(q) = PRE_SPEECH_MAX_BYTES /\ q[1] > 1 /\ q[Len(q)] = chunkCount



(* ======================= the languages of a session ======================= *)

\* one client sending chunks and set_langs messages, nothing coming back from the workers
NextLanguages ==
  \/ Connect
  \/ ChunkBegin
  \/ SetLangsBegin
  \/ IngestLoaded
  \/ IngestPublished
  \/ IngestReturn
  \/ Tick

SpecEnviron == InitEnviron /\ [][NextLanguages]_vars

\* the session objects that exist: the one a handler has loaded or is working on, the
\* cached one, those of the result task and of the catch-up task, and the one persisted
LiveSessions ==
  (IF ingest.pc = "ld" THEN {Loaded(ingest.ld)} ELSE {})
  \cup (IF ingest.pc \in {"publish", "sv_hash"} THEN {ingest.sess} ELSE {})
  \cup (IF c1 \in DOMAIN session_cache THEN {session_cache[c1].sess} ELSE {})
  \cup (IF router.pc \in {"ld_hash", "ld_audio"} THEN {RouterSession} ELSE {})
  \cup (IF router.pc = "gather" THEN {router.sess} ELSE {})
  \cup (IF catchup.pc # "none" THEN {catchup.sess} ELSE {})
  \cup (IF DOMAIN store.hash # {} THEN {StoredSession} ELSE {})

\* C21: every session that is created, changed by set_langs, saved or loaded has
\* translation_enabled exactly when its source language differs from its target language
C21_TranslationFollowsLanguages ==
  \A s \in LiveSessions : s.translation_enabled = (s.source_lang # s.target_lang)



(* ======================= the session store, one call after the other ======================= *)

\* the sessions handed to save_session: either state, each buffer empty or not, the
\* optional timestamps unset or set, the counters zero with translation or not zero without
SessionSpace ==
  { [ state |-> st, audio_buffer |-> a, pre_speech_buffer |-> p,
      silence_start_time |-> t[1], session_start_time |-> t[2],
      last_stt_send_time |-> t[3],
      accumulated_audio_bytes |-> n[1], last_published_len |-> n[2],
      silence_buffer_start_len |-> n[3],
      source_lang |-> "en", target_lang |-> n[4], translation_enabled |-> (n[4] # "en") ] :
    st \in {"inactive", "active"},
    a \in {<< >>, << 0, 255 >>}, p \in {<< >>, << 255 >>},
    t \in {<< None, None, None >>, << 0, 1, 1 >>},
    n \in {<< 0, 0, 0, "vi" >>, << 2, 2, 1, "en" >>} }

\* a finished call of the store: which call, the session it was given or has returned,
\* and the call before it
StoreCall(op, s) ==
  [IdleIngest EXCEPT !.op = op, !.sess = s, !.args = << ingest.op >>]

\* RedisService.save_session, lines 82-114, run to its end: the hash and the two buffer keys
SaveAll(s) ==
  [store EXCEPT !.hash = SaveHash(s).hash, !.snap = s,
                !.audio_buffer = SaveAudio(s).audio_buffer,
                !.pre_speech_buffer = SavePre(s).pre_speech_buffer]

\* session_cache.pop(client_id, None)
CachePopped == [x \in DOMAIN session_cache \ {c1} |-> session_cache[x]]

\* RedisService.save_session(c, s)
RedisSaveSession ==
  /\ ingest.pc = "idle"
  /\ \E s \in SessionSpace :
       /\ store' = SaveAll(s)
       /\ ingest' = StoreCall("redis_save", s)
  /\ UNCHANGED << now, phase, connected_clients, job_in_flight, latest_segment_id_sent,
                  client_pubsubs, session_cache, stream, transcriptions, channel, frames,
                  router, catchup, chunkCount, jobCount, so_marks, setLangsCount, owner,
                  endedUtts, lastCall, vad, hist, environ >>

\* RedisService.load_session(c)
RedisLoadSession ==
  /\ ingest.pc = "idle"
  /\ ingest' = StoreCall("redis_load", Loaded(LoadAll))
  /\ UNCHANGED << now, phase, connected_clients, job_in_flight, latest_segment_id_sent,
                  client_pubsubs, session_cache, store, stream, transcriptions, channel,
                  frames, router, catchup, chunkCount, jobCount, so_marks, setLangsCount,
                  owner, endedUtts, lastCall, vad, hist, environ >>

\* RedisService.delete_session(c)
RedisDeleteSession ==
  /\ ingest.pc = "idle"
  /\ store' = DeleteKeys
  /\ ingest' = StoreCall("redis_delete", InitialSession)
  /\ UNCHANGED << now, phase, connected_clients, job_in_flight, latest_segment_id_sent,
                  client_pubsubs, session_cache, stream, transcriptions, channel, frames,
                  router, catchup, chunkCount, jobCount, so_marks, setLangsCount, owner,
                  endedUtts, lastCall, vad, hist, environ >>

\* GatewayService.save_session(c, s), lines 150-155: the store, then the cache
GatewaySaveSession ==
  /\ ingest.pc = "idle"
  /\ \E s \in SessionSpace :
       /\ store' = SaveAll(s)
       /\ session_cache' = CacheEntry(s, now)
       /\ ingest' = StoreCall("gateway_save", s)
  /\ UNCHANGED << now, phase, connected_clients, job_in_flight, latest_segment_id_sent,
                  client_pubsubs, stream, transcriptions, channel, frames,
                  router, catchup, chunkCount, jobCount, so_marks, setLangsCount, owner,
                  endedUtts, lastCall, vad, hist, environ >>

\* GatewayService.load_session(c), lines 126-148: the cached session while it is younger
\* than the ttl, else the stored one, which is cached
GatewayLoadSession ==
  /\ ingest.pc = "idle"
  /\ IF CacheHit
     THEN /\ ingest' = StoreCall("gateway_load", session_cache[c1].sess)
          /\ UNCHANGED session_cache
     ELSE /\ ingest' = StoreCall("gateway_load", Loaded(LoadAll))
          /\ session_cache' = CacheEntry(Loaded(LoadAll), now)
  /\ UNCHANGED << now, phase, connected_clients, job_in_flight, latest_segment_id_sent,
                  client_pubsubs, store, stream, transcriptions, channel,
                  frames, router, catchup, chunkCount, jobCount, so_marks, setLangsCount,
                  owner, endedUtts, lastCall, vad, hist, environ >>

\* GatewayService.delete_session(c), lines 157-163: the store, then the cache
GatewayDeleteSession ==
  /\ ingest.pc = "idle"
  /\ store' = DeleteKeys
  /\ session_cache' = CachePopped
  /\ ingest' = StoreCall("gateway_delete", InitialSession)
  /\ UNCHANGED << now, phase, connected_clients, job_in_flight, latest_segment_id_sent,
                  client_pubsubs, stream, transcriptions, channel, frames,
                  router, catchup, chunkCount, jobCount, so_marks, setLangsCount, owner,
                  endedUtts, lastCall, vad, hist, environ >>

\* the calls of the session store made one after the other by one task
NextStore ==
  \/ RedisSaveSession
  \/ RedisLoadSession
  \/ RedisDeleteSession
  \/ GatewaySaveSession
  \/ GatewayLoadSession
  \/ GatewayDeleteSession
  \/ Tick

SpecStore == Init /\ [][NextStore]_vars

\* C22: a load_session that follows a save_session of session s returns a session equal
\* to s in every field, whatever s holds: empty buffers, bytes that are no text, unset
\* timestamps
C22_SaveLoadRoundTrip ==
  [][ (ingest.op = "redis_save" /\ ingest'.op = "redis_load")
      => ingest'.sess = ingest.sess ]_vars

\* a session with an empty audio buffer, binary pre-speech bytes and no timestamps was
\* saved and loaded back
C22_Witness ==
  /\ ingest.op = "redis_load"
  /\ ingest.args = << "redis_save" >>
  /\ ingest.sess.state = "active"
  /\ ingest.sess.audio_buffer = << >>
  /\ ingest.sess.pre_speech_buffer = << 255 >>
  /\ ingest.sess.silence_start_time = None
  /\ ingest.sess.last_published_len = 2

\* C23: a load_session that follows a delete_session returns the freshly initialized
\* session, whatever was stored or cached for the client before
C23_DeleteThenLoadIsInitial ==
  [][ ( /\ ingest.op \in {"redis_delete", "gateway_delete"}
        /\ ingest'.op \in {"redis_load", "gateway_load"} )
      => ingest'.sess = InitialSession ]_vars



(* ======================= forced final publishes ======================= *)

\* a process_audio_chunk call on an ACTIVE session whose silence timer has run for
\* SILENCE_THRESHOLD_SECONDS or more when the chunk arrives
TimerExpiredCall ==
  /\ ChunkCall
  /\ CallSession.state = "active"
  /\ CallSession.silence_start_time # None
  /\ now - CallSession.silence_start_time >= SILENCE_THRESHOLD_SECONDS

\* the chunk of the call had speech: the call has restarted the silence timer
TimerRestarted ==
  /\ ingest'.sess.state = "active"
  /\ ingest'.sess.silence_start_time = now

\* the call goes on to a forced final publish: publish_audio_job is called with
\* is_final, whatever job_in_flight was
ForcedFinalPublish ==
  /\ ingest'.pc = "publish"
  /\ lastCall'.branch \in {"timeout", "overflow"}
  /\ lastCall'.forced = 1

\* the forced final publish has appended its job to AUDIO_JOBS
FinalJobAppended ==
  /\ Len(stream') = Len(stream) + 1
  /\ stream'[Len(stream')].is_final
  /\ stream'[Len(stream')].audio = ingest'.sess.audio_buffer

\* a call that made a forced final publish resets the session when the publish returns,
\* and its save leaves an INACTIVE session with no audio buffer in the store
ResetAfterFinal ==
  /\ (ingest.pc = "publish" /\ ingest.branch \in {"timeout", "overflow"}
        /\ ingest'.pc = "sv_hash")
       => (ingest'.sess.state = "inactive" /\ ingest'.sess.audio_buffer = << >>
             /\ ingest'.sess.pre_speech_buffer = << >>)
  /\ (ingest.pc = "sv_hash" /\ ingest.op = "chunk"
        /\ ingest.branch \in {"timeout", "overflow"} /\ ingest'.pc = "idle")
       => (store'.hash.state = "inactive" /\ store'.audio_buffer = << >>
             /\ store'.pre_speech_buffer = << >>)

BufferHasNewData == lastCall'.buflen > CallSession.last_published_len

OverflowCall == ChunkCall /\ lastCall'.branch = "overflow"

\* when process_audio_chunk returns, the audio buffer of its session, and the one it has
\* stored, hold at most MAX_AUDIO_BUFFER_BYTES
ReturnsWithinMax ==
  (ingest.op = "chunk" /\ ingest.pc = "sv_hash" /\ ingest'.pc = "idle")
    => ( /\ Len(ingest.sess.audio_buffer) <= MAX_AUDIO_BUFFER_BYTES
         /\ Len(store'.audio_buffer) <= MAX_AUDIO_BUFFER_BYTES )

CatchupRace ==
  /\ ingest.pc = "publish" /\ ingest.branch = "normal"
  /\ CatchupStartUpTo(MaxJobs + 1)

NextRace == Next \/ CatchupRace

SpecRace == Init /\ [][NextRace]_vars

\* C26: the ingest task and the catch-up task never both pass the not-in-flight check of
\* publish_job_if_needed and both publish a non-final job for the client: no suspension
\* point lies between the read of job_in_flight and its write
C26_NoDoublePublish ==
  ~ ( /\ ingest.pc = "publish" /\ ingest.branch = "normal" /\ ingest.job # 0
      /\ catchup.pc = "publish" /\ catchup.job # 0 )


(* ======================= the session cache and the writers ======================= *)

\* no handler of the client is between the commands of a write to the session keys
NoWriteUnderWay == ingest.pc = "idle" /\ phase = "connected" /\ store.hash # NoHash

\* C27: every write to the client's session, by any handler, invalidates or refreshes
\* the gateway's session cache at once: whenever no write is under way, the session a
\* GatewayService.load_session would return from the cache is the stored session
C27_CacheFollowsWrites ==
  (NoWriteUnderWay /\ CacheHit) => session_cache[c1].sess = StoredSession


(* ======================= which result clears the flag ======================= *)

\* C28: result processing clears job_in_flight only when the result it processes is the
\* terminal result of the job that set the flag; a result of another job of the client
\* leaves the flag of a later job set
C28_OnlyOwnResultUnlocks ==
  [][ (RouterStep /\ JobInFlight /\ ~JobInFlight')
      => ( /\ owner.set
           /\ router.msg.job = owner.id
           /\ ShouldUnlockJob(RouterSession.translation_enabled, router.msg) ) ]_vars


(* ======================= out-of-order results ======================= *)

\* C29: a result whose segment_id is less than or equal to latest_segment_id_sent is not
\* forwarded to the client, but it still clears job_in_flight when the unlock predicate
\* holds (translation disabled, or a translation result)
C29_OutOfOrderStillUnlocks ==
  [][ (RouterStep /\ router.msg.segment_id <= LastSent)
      => ( /\ NewFrames = << >>
           /\ ShouldUnlockJob(RouterSession.translation_enabled, router.msg)
                 => ~JobInFlight' ) ]_vars


(* ======================= publishing during a silence period ======================= *)

\* one client streaming chunks whose verdicts are recorded and setting its languages,
\* with the workers and the result task
NextSilence ==
  \/ Connect
  \/ SetLangsBegin
  \/ TrackedChunkBegin
  \/ TrackedLoaded
  \/ IngestPublished
  \/ IngestReturn
  \/ RouterTake
  \/ RouterLoad
  \/ RouterForward
  \/ CatchupStart
  \/ CatchupPublished
  \/ STTWorker
  \/ TranslationWorker
  \/ Tick

SpecSilence == Init /\ [][NextSilence]_vars

\* after the step the client is inside a silence period: the last chunk processed had no
\* speech and came in an ACTIVE utterance, which neither the silence timeout nor the
\* overflow has ended
InSilenceAfterStep ==
  /\ ~hist'.hs /\ hist'.dip > 0
  /\ lastCall'.branch \in {"normal", "skip"}
  /\ lastCall'.endState = "active"

\* the step appends a non-final job of the client to AUDIO_JOBS
NonFinalJobAppended ==
  /\ Len(stream') = Len(stream) + 1
  /\ ~stream'[Len(stream')].is_final

\* C30: while the client is inside a silence period no non-final job is published for
\* it, neither by process_audio_chunk nor by the catch-up publish of the result task
C30_NoPublishInSilence ==
  [][ InSilenceAfterStep => ~NonFinalJobAppended ]_vars


(* ======================= the eligibility of a non-final job ======================= *)

\* the three conditions on session s under which publish_job_if_needed publishes a
\* non-final job: no job in flight, new data in the buffer, and new speech of at least
\* the minimum
Eligible(s) ==
  /\ ~JobInFlight
  /\ Len(s.audio_buffer) > s.last_published_len
  /\ NewSpeechBytes(s) >= MINIMUM_NEW_AUDIO_SECONDS

\* a step in which process_audio_chunk calls publish_job_if_needed for a non-final job
IngestEligibilityCall == ChunkCall /\ lastCall'.branch = "normal"

\* a step in which the catch-up task calls publish_job_if_needed
CatchupEligibilityCall ==
  /\ catchup.pc = "start"
  /\ catchup'.pc \in {"none", "publish"}
  /\ phase' = phase

\* C31 as stated: from the ingest path or the catch-up path, a non-final job is published
\* if and only if job_in_flight is false, the audio buffer is longer than
\* last_published_len and the new speech is at least the minimum
C31_PublishedIffEligible ==
  [][ /\ IngestEligibilityCall => (NonFinalJobAppended <=> Eligible(ingest'.sess))
      /\ CatchupEligibilityCall => (NonFinalJobAppended <=> Eligible(catchup.sess)) ]_vars

\* C31: from the ingest path or the catch-up path, publish_job_if_needed calls
\* publish_audio_job for a non-final job if and only if job_in_flight is false, the audio
\* buffer is longer than last_published_len and the new speech is at least the minimum
\* (the threshold is inclusive); the job is appended to AUDIO_JOBS if and only if, besides,
\* the depth of the stream does not exceed MAX_QUEUE_DEPTH
C31_AttemptedIffEligible ==
  [][ /\ IngestEligibilityCall
           => ( /\ (ingest'.pc = "publish") <=> Eligible(ingest'.sess)
                /\ NonFinalJobAppended
                     <=> (Eligible(ingest'.sess) /\ ingest'.depth <= MAX_QUEUE_DEPTH) )
      /\ CatchupEligibilityCall
           => ( /\ (catchup'.pc = "publish") <=> Eligible(catchup.sess)
                /\ NonFinalJobAppended
                     <=> (Eligible(catchup.sess) /\ catchup'.depth <= MAX_QUEUE_DEPTH) ) ]_vars

\* process_audio_chunk has appended a non-final job for a buffer whose new speech is
\* exactly the minimum
C31_Witness ==
  /\ ingest.pc = "publish" /\ ingest.branch = "normal" /\ ingest.job # 0
  /\ NewSpeechBytes(ingest.sess) = MINIMUM_NEW_AUDIO_SECONDS
  /\ \E i \in 1..Len(stream) : stream[i].id = ingest.job /\ ~stream[i].is_final


(* ======================= the flag at a forced final publish ======================= *)

\* C32: every forced final publish, by silence timeout or by overflow, clears
\* job_in_flight before publishing, and the flag is false when the session has returned
\* to INACTIVE
C32_ForcedFinalClearsFlag ==
  [][ /\ (ChunkCall /\ lastCall'.branch \in {"timeout", "overflow"}) => ~JobInFlight'
      /\ ( /\ ingest.pc = "publish" /\ ingest.branch \in {"timeout", "overflow"}
           /\ ingest'.pc = "sv_hash" /\ ingest'.sess.state = "inactive" )
           => ~JobInFlight' ]_vars


(* ======================= the marker after a catch-up publish ======================= *)

\* the step in which the catch-up publish_job_if_needed, having appended its job, returns
\* while the store still holds the audio buffer that was sent in the job and no handler
\* is writing the session
CatchupPublishReturns ==
  /\ catchup.pc = "publish" /\ catchup.job # 0 /\ catchup'.pc = "none"
  /\ phase' = "connected"
  /\ ingest.pc = "idle"
  /\ store.hash # NoHash
  /\ store.audio_buffer = catchup.sess.audio_buffer

\* C33: after a catch-up publish the last_published_len persisted in the store, which
\* the next process_audio_chunk sees, equals the length of the audio buffer sent in that job
C33_CatchupPersistsMarker ==
  [][ CatchupPublishReturns
      => ( /\ store'.hash.last_published_len = << Len(catchup.sess.audio_buffer) >>
           /\ NextSession'.last_published_len = Len(catchup.sess.audio_buffer) ) ]_vars


(* ======================= the languages of the next job ======================= *)

\* a set_langs message has changed the client's languages and its handler has answered
LanguagesChanged == Cardinality(StatusFrames) > 1

\* the status frame that answered the last such set_langs: the languages now in force
LastStatus == frames[CHOOSE i \in StatusFrames : \A j \in StatusFrames : j <= i]

\* C34: after a set_langs message has changed the client's languages, the next job
\* published for the client carries the new source_lang, target_lang and
\* translation_enabled, and results processed afterwards are filtered with the new
\* translation_enabled
C34_NewLanguagesApply ==
  [][ /\ (LanguagesChanged /\ (Len(stream') = Len(stream) + 1))
           => ( /\ stream'[Len(stream')].source_lang = LastStatus.source_language
                /\ stream'[Len(stream')].target_lang = LastStatus.target_language
                /\ stream'[Len(stream')].translation_enabled = LastStatus.translation_enabled )
      /\ (LanguagesChanged /\ RouterStep /\ router.pc = "ld_audio")
           => RouterSession.translation_enabled = LastStatus.translation_enabled ]_vars


(* ======================= segment ids ======================= *)

\* C35: the segment_id of every published job of the client is strictly greater than the
\* segment_id of every job published earlier for it, also when two publishes happen
\* within the same clock tick: of two jobs in AUDIO_JOBS the later has the greater id
C35_SegmentIdsIncrease ==
  \A i \in 1..Len(stream), j \in 1..Len(stream) :
    i < j => stream[i].segment_id < stream[j].segment_id


(* ======================= a stream append that raises ======================= *)

\* ChunkBegin and IngestLoaded for a call whose XADD raises
ChunkBeginRaises == \E hs \in BOOLEAN : ChunkBeginXadd(hs, TRUE) /\ UNCHANGED hist

IngestLoadedRaises == \E hs \in BOOLEAN : IngestLoadedXadd(hs, TRUE) /\ UNCHANGED hist

\* the catch-up publish_job_if_needed whose XADD raises
CatchupStartRaises == CatchupStartXadd(MaxJobs, TRUE)

\* the exception of XADD reaches _handle_audio_message, websocket_handler.py lines
\* 158-160: it is logged; lines 203-207 of publish_job_if_needed, end_speech_session and
\* save_session have not run, and the cached session object is as the call left it
IngestRaised ==
  /\ ingest.pc = "xadd_raises"
  /\ ingest' = IdleIngest
  /\ session_cache' = IF c1 \in DOMAIN session_cache
                       THEN CacheEntry(PublishOutcome(ingest.sess, TRUE), session_cache[c1].time)
                       ELSE session_cache
  /\ lastCall' = [lastCall EXCEPT !.done = TRUE]
  /\ UNCHANGED << now, phase, connected_clients, job_in_flight, latest_segment_id_sent,
                  client_pubsubs, store, stream, transcriptions, channel, frames, router,
                  catchup, chunkCount, jobCount, so_marks, setLangsCount, owner, endedUtts,
                  vad, hist, environ >>

\* the exception of XADD ends the catch-up task and, through asyncio.gather, the
\* processing of the result
CatchupRaised ==
  /\ catchup.pc = "xadd_raises"
  /\ catchup' = NoCatchup
  /\ router' = IdleRouter
  /\ UNCHANGED << now, phase, connected_clients, job_in_flight, latest_segment_id_sent,
                  client_pubsubs, session_cache, store, stream, transcriptions, channel,
                  frames, ingest, chunkCount, jobCount, so_marks, setLangsCount, owner,
                  endedUtts, lastCall, vad, hist, environ >>

\* one client streaming chunks, the workers and the result task, with appends to
\* AUDIO_JOBS that may raise
NextXadd ==
  \/ Connect
  \/ SetLangsBegin
  \/ ChunkBegin
  \/ ChunkBeginRaises
  \/ IngestLoaded
  \/ IngestLoadedRaises
  \/ IngestPublished
  \/ IngestRaised
  \/ IngestReturn
  \/ RouterTake
  \/ RouterLoad
  \/ RouterForward
  \/ CatchupStart
  \/ CatchupStartRaises
  \/ CatchupPublished
  \/ CatchupRaised
  \/ STTWorker
  \/ TranslationWorker
  \/ Tick

SpecXadd == Init /\ [][NextXadd]_vars

\* the step does not set job_in_flight
FlagNotSet == JobInFlight' => JobInFlight

\* C36: if the append of the job to AUDIO_JOBS raises, the job counts as not published:
\* nothing is appended, job_in_flight is not set and last_published_len is not advanced,
\* in the session of the call and in the store, and the call does not try again
C36_FailedAppendNotPublished ==
  [][ /\ (ingest.pc \in {"idle", "ld"} /\ ingest'.pc = "xadd_raises")
           => ( /\ stream' = stream /\ FlagNotSet /\ store' = store
                /\ ingest'.sess.last_published_len = CallSession.last_published_len )
      /\ (ingest.pc = "xadd_raises" /\ ingest'.pc = "idle")
           => ( /\ stream' = stream /\ FlagNotSet /\ store' = store
                /\ session_cache'[c1].sess.last_published_len
                     = ingest.sess.last_published_len )
      /\ (catchup.pc = "start" /\ catchup'.pc = "xadd_raises")
           => (stream' = stream /\ FlagNotSet /\ store' = store)
      /\ (catchup.pc = "xadd_raises" /\ catchup'.pc = "none")
           => (stream' = stream /\ FlagNotSet /\ store' = store) ]_vars

\* the XADD of a non-final job raised in a process_audio_chunk call, which has ended:
\* the flag is clear and the marker of the cached session is behind its buffer
C36_Witness ==
  /\ lastCall.done /\ lastCall.branch = "normal" /\ ingest.pc = "idle"
  /\ stream = << >> /\ jobCount = 0
  /\ ~JobInFlight
  /\ c1 \in DOMAIN session_cache
  /\ session_cache[c1].sess.state = "active"
  /\ session_cache[c1].sess.last_published_len = 0
  /\ NewSpeechBytes(session_cache[c1].sess) >= MINIMUM_NEW_AUDIO_SECONDS


(* ======================= entries a worker has read ======================= *)

\* RedisStreamConsumer._process_stream_message, lines 57-83, when message_processor
\* raises (_process_audio_job raises when the publish_result of its own except clause,
\* worker.py line 173, fails): the exception is logged at line 83 and XACK and XDEL, lines
\* 78-79, are skipped; XREADGROUP with ">" never delivers the entry again
\* published: publish_result of line 156 went through before the failure
STTWorkerRaises ==
  \E i \in 1..Len(stream), published \in BOOLEAN :
    LET r == SttResult(stream[i], "error") IN
    /\ ~stream[i].pel
    /\ stream' = [stream EXCEPT ![i].pel = TRUE]
    /\ channel' = IF published THEN Published(r) ELSE channel
    /\ owner' = IF published /\ owner.set /\ owner.id = r.job
                THEN [owner EXCEPT !.answered = TRUE] ELSE owner
    /\ UNCHANGED << now, phase, connected_clients, job_in_flight, latest_segment_id_sent,
                    client_pubsubs, session_cache, store, transcriptions, frames, ingest,
                    router, catchup, chunkCount, jobCount, so_marks, setLangsCount,
                    endedUtts, lastCall, vad, hist, environ >>

\* one client streaming chunks and the workers, whose processing may raise
NextWorkers ==
  \/ Connect
  \/ ChunkBegin
  \/ IngestLoaded
  \/ IngestPublished
  \/ IngestReturn
  \/ RouterTake
  \/ RouterLoad
  \/ RouterForward
  \/ CatchupStart
  \/ CatchupPublished
  \/ STTWorker
  \/ STTWorkerRaises
  \/ TranslationWorker
  \/ Tick

SpecWorkers == Init /\ [][NextWorkers]_vars

\* C37: every entry a worker has read from its consumer group is acknowledged and deleted
\* once the worker is done with it, whether the processing succeeded or raised, so the
\* length of AUDIO_JOBS counts only jobs not yet processed: no entry of the stream is one
\* that was delivered to a worker which has finished with it
C37_ReadEntriesLeaveStream ==
  \A i \in 1..Len(stream) : ~stream[i].pel


(* ======================= two clients and their result channels ======================= *)

c2 == "c2"
Clients == {c1, c2}

\* a listener that hands every message of its channel to the forwarder
ListenAcceptsAny(client_id, m) == TRUE

\* listen_to_client, line 222: the payload's client_id is compared with the subscriber's
ListenAccepts(client_id, m) == m.client_id = client_id

\* job_in_flight.get(c, False) and latest_segment_id_sent.get(c, -1)
JobInFlightOf(c) == IF c \in DOMAIN job_in_flight THEN job_in_flight[c] ELSE FALSE
LastSentOf(c) == IF c \in DOMAIN latest_segment_id_sent THEN latest_segment_id_sent[c] ELSE -1

\* d[c] = v
DictSet(d, c, v) == [x \in DOMAIN d \cup {c} |-> IF x = c THEN v ELSE d[x]]

\* the frames sent on the transport of client c
FramesTo(c) == SelectSeq(frames, LAMBDA f : f.to = c)

\* handle_client, lines 58-76: client c registers and its channel is subscribed to
ClientConnects(c) ==
  /\ c \notin connected_clients
  /\ connected_clients' = connected_clients \cup {c}
  /\ job_in_flight' = DictSet(job_in_flight, c, FALSE)
  /\ latest_segment_id_sent' = DictSet(latest_segment_id_sent, c, -1)
  /\ client_pubsubs' = client_pubsubs \cup {c}
  /\ UNCHANGED << now, phase, session_cache, store, stream, transcriptions, channel, frames,
                  ingest, router, catchup, chunkCount, jobCount, so_marks, setLangsCount,
                  owner, endedUtts, lastCall, vad, hist, environ >>

\* publish_job_if_needed, lines 205-207: a job of client c goes out and its flag is set
JobGoesOut(c) ==
  /\ c \in connected_clients
  /\ ~JobInFlightOf(c)
  /\ job_in_flight' = DictSet(job_in_flight, c, TRUE)
  /\ UNCHANGED << now, phase, connected_clients, latest_segment_id_sent, client_pubsubs,
                  session_cache, store, stream, transcriptions, channel, frames, ingest,
                  router, catchup, chunkCount, jobCount, so_marks, setLangsCount, owner,
                  endedUtts, lastCall, vad, hist, environ >>

\* redis PUBLISH on results:<chan> of a payload carrying any client_id
PublishOn(chan) ==
  \E client_id \in Clients, segment_id \in 0..MaxTime, translation \in BOOLEAN,
     is_final \in BOOLEAN :
    /\ chan \in client_pubsubs
    /\ Len(channel) + Len(frames) < MaxMessages
    /\ channel' = Append(channel, [ chan |-> chan, client_id |-> client_id,
                                    segment_id |-> segment_id,
                                    translation |-> translation, is_final |-> is_final ])
    /\ UNCHANGED << now, phase, connected_clients, job_in_flight, latest_segment_id_sent,
                    client_pubsubs, session_cache, store, stream, transcriptions, frames,
                    ingest, router, catchup, chunkCount, jobCount, so_marks, setLangsCount,
                    owner, endedUtts, lastCall, vad, hist, environ >>

\* forward_result_to_client, lines 262-390, on result m: everything is keyed by the
\* client_id of the payload (line 264)
\* te: translation_enabled of the session loaded at line 275-276
\* catch: that session holds audio not yet published (line 373), so that a job goes out
ForwardResult(m, te, catch) ==
  LET client_id == m.client_id
      last_sent == LastSentOf(client_id)
      should_forward == ShouldForward(te, m, last_sent)
      websocket == client_id \in connected_clients
      unlocks == Unlocks(te, m, last_sent)
  IN /\ latest_segment_id_sent' =
          IF should_forward
          THEN DictSet(latest_segment_id_sent, client_id, LatestAfter(te, m, last_sent))
          ELSE latest_segment_id_sent
     /\ frames' =
          IF should_forward /\ websocket
          THEN frames \o << [to |-> client_id, type |-> "realtime",
                              segment_id |-> m.segment_id] >>
                      \o (IF ShouldSendUtteranceEnd(te, m)
                          THEN << [to |-> client_id, type |-> "utterance_end",
                                   segment_id |-> m.segment_id] >>
                          ELSE << >>)
          ELSE frames
     /\ job_in_flight' =
          IF unlocks THEN DictSet(job_in_flight, client_id, catch) ELSE job_in_flight

\* listen_to_client, lines 204-229: the next message of a subscribed channel is taken and,
\* when the check of line 222 passes, handed to the forwarder
ListenNext ==
  /\ channel # << >>
  /\ LET m == Head(channel) IN
       /\ channel' = Tail(channel)
       /\ router' = [router EXCEPT !.msg = m]
       /\ IF ListenAccepts(m.chan, m)
          THEN \E te \in BOOLEAN, catch \in BOOLEAN : ForwardResult(m, te, catch)
          ELSE UNCHANGED << latest_segment_id_sent, frames, job_in_flight >>
  /\ UNCHANGED << now, phase, connected_clients, client_pubsubs, session_cache, store,
                  stream, transcriptions, ingest, catchup, chunkCount, jobCount, so_marks,
                  setLangsCount, owner, endedUtts, lastCall, vad, hist, environ >>

NextChannels ==
  \/ \E c \in Clients : ClientConnects(c)
  \/ \E c \in Clients : JobGoesOut(c)
  \/ \E c \in Clients : PublishOn(c)
  \/ ListenNext

SpecChannels == Init /\ [][NextChannels]_vars

\* C38: a result published on results:<A> never sends a frame to the transport of another
\* client B and never changes B's job_in_flight or latest_segment_id_sent, whatever
\* client_id its payload carries
C38_ChannelsAreSeparate ==
  [][ (channel # << >> /\ channel' = Tail(channel))
      => \A b \in Clients \ {Head(channel).chan} :
          /\ JobInFlightOf(b)' = JobInFlightOf(b)
          /\ LastSentOf(b)' = LastSentOf(b)
          /\ FramesTo(b)' = FramesTo(b) ]_vars

\* a message of results:<A> carrying the client_id of B, whose job is in flight, was taken
C38_Witness ==
  /\ router.msg # NoMsg
  /\ router.msg.client_id # router.msg.chan
  /\ router.msg.client_id \in connected_clients
  /\ JobInFlightOf(router.msg.client_id)
  /\ router.msg.segment_id > LastSentOf(router.msg.client_id)


(* ======================= the detector and two clients ======================= *)

\* GatewayService.__init__ and detect_speech_activity, lines 123-125: the one
\* VoiceActivityDetector of the gateway serves the chunks of every client
NextVadClients ==
  \/ \E c \in Clients : DetectBeginOf(c)
  \/ DetectReturn
  \/ SileroVerdict
  \/ SileroDone

SpecVadClients == Init /\ [][NextVadClients]_vars

\* C39: the verdict detect_speech_activity returns for a chunk of client B depends only on
\* B's own chunks, never on audio another client A sent through the same gateway: no
\* verdict of speech rests on a Silero flag computed from another client's chunk
C39_VerdictsAreIndependent ==
  (vad.returned /\ vad.verdict) => vad.usedClient \in {"none", vad.client}


(* ======================= the silence state and the silence marker ======================= *)

\* the sessions the handlers hold or can load: the one of the ingest task, those of the
\* result task and of the catch-up, the cached one, the persisted one
SessionsAtHand ==
  {ingest.sess, router.sess, catchup.sess, StoredSession}
    \cup (IF c1 \in DOMAIN session_cache THEN {session_cache[c1].sess} ELSE {})

====
